---- MODULE Spec2Model ----
(***************************************************************************)
(* Model of src/app.py (Study Wise Ai Tutor): the LLM helper functions     *)
(* get_gemini_client, get_openai_client, generate_response and the file    *)
(* parsing utilities read_pdf_bytes, read_docx_bytes, read_text_bytes,     *)
(* parse_uploaded_file.                                                    *)
(*                                                                         *)
(* Conventions.                                                            *)
(*  - A Python Optional value is a sequence of length 0 (None) or 1.       *)
(*  - A Python str handled by generate_response is the sequence of its     *)
(*    code points; Str("...") is the str of an ASCII literal.              *)
(*  - File texts are run-length encoded sequences of <<code point, count>> *)
(*    so that texts longer than MAX_FILE_TEXT characters can be handled.   *)
(*  - API keys, file names and API names are TLA+ strings.                 *)
(***************************************************************************)
EXTENDS Integers, Sequences, FiniteSets, TLC

VARIABLES
    environ,         \* os.environ restricted to the two API key names
    secrets,         \* st.secrets restricted to the two API key names
    genai,           \* TRUE iff "from google import genai" succeeded
    openai,          \* "absent" | "chat" | "legacy": the imported openai module
    openai_api_key,  \* Optional: the module attribute openai.api_key
    st_debug,        \* TRUE iff the attribute st.debug has been installed
    startup,         \* "pending" | "running" | "fatal"
    attempted,       \* TRUE iff some provider call was ever attempted
    lastCall,        \* the last generate_response call: arguments and result
    upload,          \* the last uploaded file handed to parse_uploaded_file
    parsed           \* the last parse_uploaded_file call and its result

vars     == <<environ, secrets, genai, openai, openai_api_key, st_debug,
              startup, attempted, lastCall, upload, parsed>>

----------------------------------------------------------------------------
(* Python values *)

None == <<>>

Some(v) == <<v>>

\* Python truthiness of an Optional[str]
Truthy(o) == o /= None /\ Len(o[1]) > 0

\* a or b
py_or(a, b) == IF Truthy(a) THEN a ELSE b

\* the ASCII characters 32..95 and 97..126 (a TLA+ string cannot hold "`", 96)
AsciiLow == " !\"#$%&'()*+,-./0123456789:;<=>?@ABCDEFGHIJKLMNOPQRSTUVWXYZ[\\]^_"
AsciiHigh == "abcdefghijklmnopqrstuvwxyz{|}~"

\* ord(c) of an ASCII character
Ord(c) ==
    IF c = "\n" THEN 10
    ELSE IF c = "\t" THEN 9
    ELSE IF \E i \in 1..Len(AsciiLow) : SubSeq(AsciiLow, i, i) = c
    THEN 31 + CHOOSE i \in 1..Len(AsciiLow) : SubSeq(AsciiLow, i, i) = c
    ELSE 96 + CHOOSE i \in 1..Len(AsciiHigh) : SubSeq(AsciiHigh, i, i) = c

\* the str of an ASCII literal: its code points
Str(s) == [i \in 1..Len(s) |-> Ord(SubSeq(s, i, i))]

\* the code points c with chr(c).isspace()
Whitespace ==
    {9, 10, 11, 12, 13, 28, 29, 30, 31, 32, 133, 160, 5760}
    \cup (8192..8202) \cup {8232, 8233, 8239, 8287, 12288}

StrTrue == Str("True")
StrFalse == Str("False")

\* str(b) of a bool, as an f-string formats it
str_bool(b) == IF b THEN StrTrue ELSE StrFalse

\* s[:k]
Slice(s, k) == IF Len(s) <= k THEN s ELSE SubSeq(s, 1, k)

StartsWith(s, p) == Len(p) <= Len(s) /\ SubSeq(s, 1, Len(p)) = p

Contains(s, sub) ==
    \E i \in 1..(Len(s) - Len(sub) + 1) : SubSeq(s, i, i + Len(sub) - 1) = sub

RECURSIVE lstrip(_)
lstrip(s) ==
    IF Len(s) > 0 /\ s[1] \in Whitespace
    THEN lstrip(Tail(s))
    ELSE s

RECURSIVE rstrip(_)
rstrip(s) ==
    IF Len(s) > 0 /\ s[Len(s)] \in Whitespace
    THEN rstrip(SubSeq(s, 1, Len(s) - 1))
    ELSE s

\* str.strip()
strip(s) == rstrip(lstrip(s))

RECURSIVE Repeat(_, _)
\* s * n
Repeat(s, n) ==
    IF n = 0 THEN <<>>
    ELSE IF n % 2 = 1 THEN s \o Repeat(s \o s, n \div 2)
    ELSE Repeat(s \o s, n \div 2)

----------------------------------------------------------------------------
(* Configuration *)

GEMINI_API_KEY == "GEMINI_API_KEY"
OPENAI_API_KEY == "OPENAI_API_KEY"
KeyNames == {GEMINI_API_KEY, OPENAI_API_KEY}

EnvValues    == {"key-from-env"}
SecretValues == {"", "key-from-secrets"}

Environs == UNION {[D -> EnvValues] : D \in SUBSET KeyNames}
SecretStores == UNION {[D -> SecretValues] : D \in SUBSET KeyNames}

\* os.getenv(k)
getenv(k) == IF k \in DOMAIN environ THEN Some(environ[k]) ELSE None

\* st.secrets.get(k)
secrets_get(k) == IF k \in DOMAIN secrets THEN Some(secrets[k]) ELSE None

\* os.getenv(k) or st.secrets.get(k) if k in st.secrets else None
\* Python parses this as (A or B) if C else None.
read_api_key(k) ==
    IF k \in DOMAIN secrets THEN py_or(getenv(k), secrets_get(k)) ELSE None

\* variant: the client is built without a check of the key
get_gemini_client_unchecked ==
    IF genai THEN Some([api_key |-> ""]) ELSE None

get_gemini_client ==
    LET api_key == read_api_key(GEMINI_API_KEY)
    IN  IF Truthy(api_key) /\ genai
        THEN Some([api_key |-> api_key[1]])
        ELSE None

get_openai_client ==
    LET api_key == read_api_key(OPENAI_API_KEY)
    IN  IF Truthy(api_key) /\ openai /= "absent"
        THEN Some([api_key |-> api_key[1], module |-> openai])
        ELSE None

----------------------------------------------------------------------------
(* generate_response *)

EM_DASH == 8212    \* U+2014

system_preamble ==
    Str("You are Study Wise Ai Tutor ") \o <<EM_DASH>>
    \o Str(" a helpful, patient, step-by-step AI tutor. ")
    \o Str("When asked, provide clear explanations, list key steps, produce short quizzes, and suggest external resources ")
    \o Str("if enabled. Keep answers concise but thorough; when asked for step-by-step, number steps. ")

StrExplain == Str("explain")
ModeLabel == Str("\nMode: ")
LinksLabel == Str("\nExternalLinksAllowed: ")
BlankLine == Str("\n\n")

\* d.get(k, default) of a dict d
dict_get(d, k, default) == IF k \in DOMAIN d THEN d[k] ELSE default

\* mode_meta is Optional[dict]; None is replaced by {}
meta_dict(mode_meta) == IF mode_meta = None THEN <<>> ELSE mode_meta[1]

external_flag(mode_meta) == dict_get(meta_dict(mode_meta), "external_refs", TRUE)

reasoning(mode_meta) == dict_get(meta_dict(mode_meta), "reasoning", StrExplain)

\* variant: the instructions follow the prompt
assembled_prompt_swapped(prompt, mode_meta) ==
    prompt \o BlankLine \o system_preamble
    \o ModeLabel \o reasoning(mode_meta)
    \o LinksLabel \o str_bool(external_flag(mode_meta))

assembled_prompt(prompt, mode_meta) ==
    system_preamble
    \o ModeLabel \o reasoning(mode_meta)
    \o LinksLabel \o str_bool(external_flag(mode_meta))
    \o BlankLine \o prompt

NoMessages == <<>>

\* gemini.models.generate_content(model=..., contents=assembled, config=...)
gemini_request(assembled, max_output_tokens, resp) ==
    [api        |-> "gemini.models.generate_content",
     prompt     |-> assembled,
     messages   |-> NoMessages,
     max_tokens |-> max_output_tokens,
     resp       |-> resp]

\* openai.ChatCompletion.create(...) when the module has the attribute,
\* openai.Completion.create(...) otherwise
openai_request(module, prompt, assembled, max_output_tokens, resp) ==
    IF module = "chat"
    THEN [api        |-> "openai.ChatCompletion.create",
          prompt     |-> <<>>,
          messages   |-> <<[role |-> "system", content |-> system_preamble],
                           [role |-> "user", content |-> prompt]>>,
          max_tokens |-> max_output_tokens,
          resp       |-> resp]
    ELSE [api        |-> "openai.Completion.create",
          prompt     |-> assembled,
          messages   |-> NoMessages,
          max_tokens |-> max_output_tokens,
          resp       |-> resp]

\* the value the Gemini branch returns for a response that did not raise
gemini_result(resp) == IF Truthy(resp.text) THEN resp.text[1] ELSE resp.str

\* resp.choices[0].message.content.strip() / resp.choices[0].text.strip()
openai_result(resp) == strip(resp.str)

\* variant: a response without text does not return
gemini_returned_only_text(gemini, resp) ==
    gemini /= None /\ ~resp.raises /\ Truthy(resp.text)

\* the Gemini try block is entered and ends in one of its two returns
gemini_returned(gemini, resp) == gemini /= None /\ ~resp.raises

\* the OpenAI try block is entered and ends in one of its two returns
openai_returned(openai_client, resp) == openai_client /= None /\ ~resp.raises

\* st.debug after "except Exception" of the Gemini block:
\* st.debug = getattr(st, "debug", lambda *a, **k: None)
debug_after_gemini(gemini, resp) ==
    st_debug \/ (gemini /= None /\ resp.raises)

FallbackHeader == Str("[Local fallback response]\n\n")
Ellipsis == Str("...")

local_fallback(assembled) ==
    LET short == strip(assembled)
    IN  FallbackHeader
        \o Slice(short, 800) \o (IF Len(short) > 800 THEN Ellipsis ELSE <<>>)

AttributeError == Str("AttributeError: module 'streamlit' has no attribute 'debug'")

generate_response(prompt, mode_meta, max_output_tokens, gresp, oresp) ==
    LET assembled == assembled_prompt(prompt, mode_meta)
        gemini == get_gemini_client
        calls1 == IF gemini /= None
                  THEN <<gemini_request(assembled, max_output_tokens, gresp)>>
                  ELSE <<>>
        debug1 == debug_after_gemini(gemini, gresp)
        openai_client == get_openai_client
        key1 == IF openai_client /= None
                THEN Some(openai_client[1].api_key)
                ELSE openai_api_key
        calls2 == IF openai_client /= None
                  THEN calls1 \o <<openai_request(openai_client[1].module, prompt,
                                                  assembled, max_output_tokens, oresp)>>
                  ELSE calls1
    IN  IF gemini_returned(gemini, gresp)
        THEN [outcome |-> "return", value |-> gemini_result(gresp), calls |-> calls1,
              st_debug |-> st_debug, openai_api_key |-> openai_api_key]
        ELSE IF openai_returned(openai_client, oresp)
        THEN [outcome |-> "return", value |-> openai_result(oresp), calls |-> calls2,
              st_debug |-> debug1, openai_api_key |-> key1]
        ELSE IF openai_client /= None /\ ~debug1
        THEN \* "except Exception as e: st.debug(...)" with no attribute st.debug
             [outcome |-> "raise", value |-> AttributeError, calls |-> calls2,
              st_debug |-> debug1, openai_api_key |-> key1]
        ELSE [outcome |-> "return", value |-> local_fallback(assembled), calls |-> calls2,
              st_debug |-> debug1, openai_api_key |-> key1]

----------------------------------------------------------------------------
(* Inputs of generate_response *)

LongPromptLen == 600

\* a prompt with leading and trailing whitespace (also a form feed and a
\* no-break space), and a prompt that makes the assembled prompt longer than
\* 800 characters
Prompts ==
    {<<12>> \o Str("  What is 2+2? \n") \o <<160>>,
     Str("Summarize: ") \o Repeat(Str("x"), LongPromptLen)}

ModeMetas ==
    {None, Some([reasoning |-> Str("quiz")]),
     Some([external_refs |-> FALSE, reasoning |-> Str("deep-thinking")])}

max_output_tokens_default == 500

\* What a provider call does: raise, or return a response object
\* (text: Optional attribute resp.text; str: str(resp) or the completion text)
GeminiResponses ==
    {[raises |-> TRUE,  text |-> None, str |-> <<>>],
     [raises |-> FALSE, text |-> Some(Str("Gemini answer")), str |-> Str("<response>")],
     [raises |-> FALSE, text |-> None, str |-> Str("<response without text>")]}

OpenAIResponses ==
    {[raises |-> TRUE,  text |-> None, str |-> <<>>],
     [raises |-> FALSE, text |-> None,
      str |-> <<12>> \o Str(" OpenAI answer \n") \o <<160>>]}

----------------------------------------------------------------------------
(* State machine of the LLM helpers *)

NoCall ==
    [called |-> FALSE, prompt |-> <<>>, mode_meta |-> None,
     outcome |-> "", value |-> <<>>, calls |-> <<>>]

InitLLM ==
    /\ environ \in Environs
    /\ secrets \in SecretStores
    /\ genai \in BOOLEAN
    /\ openai \in {"absent", "chat", "legacy"}
    /\ openai_api_key = None
    /\ st_debug = FALSE
    /\ startup = "pending"
    /\ attempted = FALSE
    /\ lastCall = NoCall

\* no key for either provider, in the environment or in the secrets store
CredentialMissing ==
    \A k \in KeyNames : ~Truthy(getenv(k)) /\ ~Truthy(secrets_get(k))

\* Start of the app: a missing credential is a fatal configuration error.
\* This code is not part of app.py as given (line 200), so the action follows
\* the specification.  generate_response does not look at the outcome of the
\* startup (lines 76-145), so GenerateResponse is not guarded by it.
Startup ==
    /\ startup = "pending"
    /\ startup' = IF CredentialMissing THEN "fatal" ELSE "running"
    /\ UNCHANGED <<environ, secrets, genai, openai, openai_api_key, st_debug,
                   attempted, lastCall, upload, parsed>>

GenerateResponse ==
    \E prompt \in Prompts, mode_meta \in ModeMetas,
       gresp \in GeminiResponses, oresp \in OpenAIResponses :
        LET r == generate_response(prompt, mode_meta, max_output_tokens_default,
                                   gresp, oresp)
        IN  /\ lastCall' = [called |-> TRUE, prompt |-> prompt, mode_meta |-> mode_meta,
                            outcome |-> r.outcome, value |-> r.value, calls |-> r.calls]
            /\ st_debug' = r.st_debug
            /\ openai_api_key' = r.openai_api_key
            /\ attempted' = (attempted \/ r.calls /= <<>>)
            /\ UNCHANGED <<environ, secrets, genai, openai, startup, upload, parsed>>

----------------------------------------------------------------------------
(* File texts: run-length encoded sequences of <<code point, count>>,       *)
(* count >= 1, adjacent runs of different code points.                      *)

RECURSIVE Norm(_)
\* the canonical form: no empty run, no two adjacent runs of one code point
Norm(t) ==
    IF t = <<>> THEN <<>>
    ELSE LET h == Head(t)
             r == Norm(Tail(t))
         IN  IF h[2] = 0 THEN r
             ELSE IF r /= <<>> /\ r[1][1] = h[1]
             THEN <<<<h[1], h[2] + r[1][2]>>>> \o Tail(r)
             ELSE <<h>> \o r

\* the text of a string literal
Lit(s) == LET c == Str(s) IN Norm([i \in 1..Len(c) |-> <<c[i], 1>>])

RECURSIVE TLen(_)
\* len(t)
TLen(t) == IF t = <<>> THEN 0 ELSE Head(t)[2] + TLen(Tail(t))

\* a + b
TCat(a, b) == Norm(a \o b)

RECURSIVE TTake(_, _)
\* t[:k]
TTake(t, k) ==
    IF k <= 0 \/ t = <<>> THEN <<>>
    ELSE IF Head(t)[2] >= k THEN <<<<Head(t)[1], k>>>>
    ELSE <<Head(t)>> \o TTake(Tail(t), k - Head(t)[2])

RECURSIVE TDrop(_, _)
\* t[k:]
TDrop(t, k) ==
    IF t = <<>> THEN <<>>
    ELSE IF k <= 0 THEN t
    ELSE IF Head(t)[2] > k THEN <<<<Head(t)[1], Head(t)[2] - k>>>> \o Tail(t)
    ELSE TDrop(Tail(t), k - Head(t)[2])

TStartsWith(t, p) == TLen(p) <= TLen(t) /\ TTake(t, TLen(p)) = p

\* t.strip() is empty: every character is whitespace
TBlank(t) == \A i \in DOMAIN t : t[i][1] \in Whitespace

RECURSIVE TJoin(_, _)
\* sep.join(parts)
TJoin(sep, parts) ==
    IF parts = <<>> THEN <<>>
    ELSE IF Len(parts) = 1 THEN parts[1]
    ELSE TCat(TCat(parts[1], sep), TJoin(sep, Tail(parts)))

----------------------------------------------------------------------------
(* File parsing utilities *)

MAX_FILE_TEXT == 120000

TruncationMarker == Lit("\n\n[Truncated]")

REPLACEMENT == 65533    \* U+FFFD

RECURSIVE first_bytes(_, _)
\* the first k bytes of run-length encoded bytes, one by one
first_bytes(raw, k) ==
    IF k = 0 \/ raw = <<>> THEN <<>>
    ELSE IF Head(raw)[2] = 0 THEN first_bytes(Tail(raw), k)
    ELSE <<Head(raw)[1]>>
         \o first_bytes(<<<<Head(raw)[1], Head(raw)[2] - 1>>>> \o Tail(raw), k - 1)

\* a UTF-8 continuation byte
utf8_continuation(b) == b >= 128 /\ b <= 191

\* the number of continuation bytes that follow the lead byte b; 0 for a
\* byte that starts no sequence (0x80..0xC1, 0xF5..0xFF)
utf8_need(b) ==
    IF b >= 194 /\ b <= 223 THEN 1
    ELSE IF b >= 224 /\ b <= 239 THEN 2
    ELSE IF b >= 240 /\ b <= 244 THEN 3
    ELSE 0

\* the second byte of a sequence is restricted after 0xE0 (no overlong
\* form), 0xED (no surrogate), 0xF0 (no overlong form), 0xF4 (<= U+10FFFF)
utf8_second(b, c) ==
    /\ c >= (IF b = 224 THEN 160 ELSE IF b = 240 THEN 144 ELSE 128)
    /\ c <= (IF b = 237 THEN 159 ELSE IF b = 244 THEN 143 ELSE 191)

\* the character decoded from the lead byte b and the bytes after it, and
\* the number of bytes used: an incomplete or invalid sequence is replaced,
\* as far as it is valid, by one U+FFFD
utf8_one(b, ahead) ==
    LET need == utf8_need(b)
        ok1 == Len(ahead) >= 1 /\ utf8_second(b, ahead[1])
        ok2 == ok1 /\ Len(ahead) >= 2 /\ utf8_continuation(ahead[2])
        ok3 == ok2 /\ Len(ahead) >= 3 /\ utf8_continuation(ahead[3])
        valid == IF ok3 THEN 3 ELSE IF ok2 THEN 2 ELSE IF ok1 THEN 1 ELSE 0
    IN  IF valid < need THEN [cp |-> REPLACEMENT, used |-> 1 + valid]
        ELSE IF need = 1
        THEN [cp |-> (b - 192) * 64 + (ahead[1] - 128), used |-> 2]
        ELSE IF need = 2
        THEN [cp |-> (b - 224) * 4096 + (ahead[1] - 128) * 64 + (ahead[2] - 128),
              used |-> 3]
        ELSE [cp |-> (b - 240) * 262144 + (ahead[1] - 128) * 4096
                     + (ahead[2] - 128) * 64 + (ahead[3] - 128),
              used |-> 4]

\* bytes.decode("utf-8", errors="replace") on run-length encoded bytes.
\* Of a run of n equal lead bytes the first n - 1 are each followed by a
\* lead byte, so each is replaced; the last one starts a sequence.
RECURSIVE utf8_decode(_)
utf8_decode(raw) ==
    IF raw = <<>> THEN <<>>
    ELSE LET b == Head(raw)[1]
             n == Head(raw)[2]
             rest == Tail(raw)
         IN  IF n = 0 THEN utf8_decode(rest)
             ELSE IF b < 128 THEN TCat(<<<<b, n>>>>, utf8_decode(rest))
             ELSE IF utf8_need(b) = 0
             THEN TCat(<<<<REPLACEMENT, n>>>>, utf8_decode(rest))
             ELSE LET one == utf8_one(b, first_bytes(rest, utf8_need(b)))
                  IN  TCat(<<<<REPLACEMENT, n - 1>>, <<one.cp, 1>>>>,
                           utf8_decode(TDrop(rest, one.used - 1)))

\* a library call that returned v / a function that raised
Returned(v) == [raised |-> FALSE, value |-> v]
Raised == [raised |-> TRUE, value |-> <<>>]

RECURSIVE page_texts(_)
\* the loop over reader.pages: a page whose extract_text() raises counts as
\* "", and only truthy texts are kept
page_texts(pages) ==
    IF pages = <<>> THEN <<>>
    ELSE LET p == Head(pages)
             text == IF p.raises THEN <<>> ELSE p.text
         IN  (IF text /= <<>> THEN <<text>> ELSE <<>>) \o page_texts(Tail(pages))

\* reader: what PdfReader(io.BytesIO(bytes_data)) does with these bytes
read_pdf_bytes(bytes_data, reader) ==
    IF reader.raises
    THEN Returned(TCat(TCat(Lit("[Error reading PDF: "), reader.detail), Lit("]")))
    ELSE Returned(TJoin(Lit("\n\n"), page_texts(reader.pages)))

\* [p.text for p in doc.paragraphs if p.text.strip()]
nonblank(paragraphs) == SelectSeq(paragraphs, LAMBDA t : ~TBlank(t))

\* document: what docx.Document(tmp.name) does with these bytes
read_docx_bytes(bytes_data, document) ==
    IF document.raises
    THEN Returned(TCat(TCat(Lit("[Error reading DOCX: "), document.detail), Lit("]")))
    ELSE Returned(TJoin(Lit("\n\n"), nonblank(document.paragraphs)))

\* decode(encoding, errors="replace") does not raise, so the latin-1
\* handler is never entered
read_text_bytes(bytes_data) == Returned(utf8_decode(bytes_data))

\* markdown2.markdown(text), called outside any try block: the conversion
\* raises, which leaves parse_uploaded_file, or returns; what it returns is
\* given for a text that is one paragraph without markup: the paragraph
\* wrapped in <p>...</p> and a final newline
markdown(text, converter) ==
    IF converter.raises
    THEN Raised
    ELSE Returned(TCat(TCat(Lit("<p>"), text), Lit("</p>\n")))

Upper == "ABCDEFGHIJKLMNOPQRSTUVWXYZ"
Lower == "abcdefghijklmnopqrstuvwxyz"

lower_char(c) ==
    IF \E i \in 1..26 : SubSeq(Upper, i, i) = c
    THEN LET i == CHOOSE j \in 1..26 : SubSeq(Upper, j, j) = c
         IN  SubSeq(Lower, i, i)
    ELSE c

RECURSIVE str_lower(_)
\* s.lower()
str_lower(s) ==
    IF s = "" THEN ""
    ELSE lower_char(SubSeq(s, 1, 1)) \o str_lower(SubSeq(s, 2, Len(s)))

\* s.endswith(suffix)
endswith(s, suffix) ==
    Len(suffix) <= Len(s) /\ SubSeq(s, Len(s) - Len(suffix) + 1, Len(s)) = suffix

\* variant: the name is not lowercased
name_as_given(name) == name

\* lower = name.lower()
lower_name(name) == str_lower(name)

\* variant: the marker counts towards the cap
truncate_within_cap(text) ==
    IF TLen(text) > MAX_FILE_TEXT
    THEN TCat(TTake(text, MAX_FILE_TEXT - TLen(TruncationMarker)), TruncationMarker)
    ELSE text

\* variant: no cap
truncate_never(text) == text

\* if len(text) > MAX_FILE_TEXT: text = text[:MAX_FILE_TEXT] + "\n\n[Truncated]"
truncate(text) ==
    IF TLen(text) > MAX_FILE_TEXT
    THEN TCat(TTake(text, MAX_FILE_TEXT), TruncationMarker)
    ELSE text

\* the if / elif / else of parse_uploaded_file: the functions called, in
\* order, and what the last one returned
extract(lower, raw, reader, document, converter) ==
    IF endswith(lower, ".pdf")
    THEN [via |-> <<"read_pdf_bytes">>, result |-> read_pdf_bytes(raw, reader)]
    ELSE IF endswith(lower, ".docx")
    THEN [via |-> <<"read_docx_bytes">>, result |-> read_docx_bytes(raw, document)]
    ELSE LET decoded == read_text_bytes(raw)
         IN  IF endswith(lower, ".md") /\ ~decoded.raised
             THEN [via |-> <<"read_text_bytes", "markdown2.markdown">>,
                   result |-> markdown(decoded.value, converter)]
             ELSE [via |-> <<"read_text_bytes">>, result |-> decoded]

parse_uploaded_file(name, raw, reader, document, converter) ==
    LET e == extract(lower_name(name), raw, reader, document, converter)
    IN  IF e.result.raised
        THEN [called |-> TRUE, raised |-> TRUE, via |-> e.via,
              name |-> "", text |-> <<>>, extracted |-> <<>>]
        ELSE [called |-> TRUE, raised |-> FALSE, via |-> e.via,
              name |-> name, text |-> truncate(e.result.value),
              extracted |-> e.result.value]

----------------------------------------------------------------------------
(* Inputs of parse_uploaded_file *)

\* how far beyond MAX_FILE_TEXT the long inputs reach
Slack == 2

\* the bytes of an ASCII string
Bytes(s) == LET c == Str(s) IN [i \in 1..Len(c) |-> <<c[i], 1>>]

Names == {"notes.pdf", "Paper.PDF", "essay.docx", "README.md", "data.txt", "scan.pdf.bak"}

Raws ==
    {<<>>,
     Bytes("Hello world"),
     <<<<255, 1>>, <<65, 1>>, <<195, 2>>, <<169, 2>>, <<195, 1>>>>,
     <<<<226, 1>>, <<130, 1>>, <<172, 1>>, <<240, 1>>, <<159, 1>>, <<152, 1>>,
       <<128, 1>>, <<32, 1>>, <<226, 1>>, <<130, 1>>>>,
     <<<<97, MAX_FILE_TEXT>>>>,
     <<<<97, MAX_FILE_TEXT - 4>>>>,
     <<<<97, MAX_FILE_TEXT + Slack>>>>,
     <<<<97, 2 * MAX_FILE_TEXT>>>>}

Page(t) == [raises |-> FALSE, text |-> t]
PageRaises == [raises |-> TRUE, text |-> <<>>]

Readers ==
    {[raises |-> TRUE, detail |-> Lit("EOF marker not found"), pages |-> <<>>],
     [raises |-> TRUE, detail |-> <<<<101, MAX_FILE_TEXT + Slack>>>>, pages |-> <<>>],
     [raises |-> FALSE, detail |-> <<>>, pages |-> <<>>],
     [raises |-> FALSE, detail |-> <<>>,
      pages |-> <<Page(Lit("Page one")), PageRaises, Page(<<>>), Page(Lit("Page two"))>>],
     [raises |-> FALSE, detail |-> <<>>,
      pages |-> <<Page(<<<<97, MAX_FILE_TEXT - 1>>>>), Page(<<<<98, Slack>>>>)>>]}

Documents ==
    {[raises |-> TRUE, detail |-> Lit("File is not a zip file"), paragraphs |-> <<>>],
     [raises |-> FALSE, detail |-> <<>>,
      paragraphs |-> <<Lit("Title"), Lit("  \t"), <<>>, <<<<160, 1>>, <<12, 1>>>>,
                       Lit("Body text")>>],
     [raises |-> FALSE, detail |-> <<>>,
      paragraphs |-> <<<<<<97, MAX_FILE_TEXT>>>>, <<<<98, Slack>>>>>>]}

----------------------------------------------------------------------------
(* State machine of the file parsing utilities *)

NoUpload ==
    [name |-> "", raw |-> <<>>, reader |-> <<>>, document |-> <<>>,
     converter |-> <<>>]

NotParsed ==
    [called |-> FALSE, raised |-> FALSE, via |-> <<>>,
     name |-> "", text |-> <<>>, extracted |-> <<>>]

\* what markdown2.markdown does with the decoded text: return or raise
Converters == {[raises |-> FALSE], [raises |-> TRUE]}

Uploads ==
    [name : Names, raw : Raws, reader : Readers, document : Documents,
     converter : Converters]

\* one call of parse_uploaded_file on the uploaded file
ParseUploadedFile ==
    /\ upload \in Uploads
    /\ ~parsed.called
    /\ parsed' = parse_uploaded_file(upload.name, upload.raw, upload.reader,
                                     upload.document, upload.converter)
    /\ UNCHANGED <<upload, environ, secrets, genai, openai, openai_api_key,
                   st_debug, startup, attempted, lastCall>>

InitFile ==
    /\ upload = NoUpload
    /\ parsed = NotParsed

Init == InitLLM /\ InitFile

Next == Startup \/ GenerateResponse

Spec == Init /\ [][Next]_vars

\* the file utilities alone, in a process without any API key
InitNoKeys ==
    /\ environ = <<>>
    /\ secrets = <<>>
    /\ genai = FALSE
    /\ openai = "absent"
    /\ openai_api_key = None
    /\ st_debug = FALSE
    /\ startup = "pending"
    /\ attempted = FALSE
    /\ lastCall = NoCall

FileInit ==
    /\ InitNoKeys
    /\ upload \in Uploads
    /\ parsed = NotParsed

FileNext == ParseUploadedFile

FileSpec == FileInit /\ [][FileNext]_vars

----------------------------------------------------------------------------
(* Properties of generate_response and the client getters (under Spec) *)

GeminiApi == "gemini.models.generate_content"
ChatApi == "openai.ChatCompletion.create"
CompletionApi == "openai.Completion.create"

RECURSIVE ContentsInOrder(_)
ContentsInOrder(messages) ==
    IF messages = <<>> THEN <<>>
    ELSE Head(messages).content \o ContentsInOrder(Tail(messages))

\* the prompt text a provider call hands to the completion service: the
\* prompt string, or for a chat call the message contents in order
RequestText(c) == IF c.api = ChatApi THEN ContentsInOrder(c.messages) ELSE c.prompt

ReturnedFallback ==
    lastCall.called /\ lastCall.outcome = "return"
    /\ StartsWith(lastCall.value, FallbackHeader)

KeyPresent(k) == Truthy(getenv(k)) \/ Truthy(secrets_get(k))

\* C1 (as claimed): generate_response always returns a string and never
\* raises, whatever the configuration, the provider outcomes and the history
\* of earlier calls.
C1_NeverRaises == lastCall.called => lastCall.outcome = "return"

\* C5: when neither provider has a key, startup ends in the fatal
\* configuration error and no provider call is ever attempted.
C5_NoCredentialNoCalls ==
    CredentialMissing =>
        /\ ~attempted
        /\ lastCall.calls = <<>>
        /\ startup \in {"pending", "fatal"}

C5_Witness ==
    CredentialMissing /\ genai /\ openai = "chat" /\ startup = "fatal" /\ ReturnedFallback

\* C6 (as claimed): a provider whose library is importable and whose key is
\* present in the environment or in the secrets store gets a client.
C6_EitherSource ==
    /\ (genai /\ KeyPresent(GEMINI_API_KEY)) => get_gemini_client /= None
    /\ (openai /= "absent" /\ KeyPresent(OPENAI_API_KEY)) => get_openai_client /= None

\* C7: on every path the prompt text handed to a provider, and the prompt
\* echoed by the local fallback, starts with the system preamble.
C7_PreamblePrefix ==
    lastCall.called =>
        /\ \A i \in DOMAIN lastCall.calls :
               StartsWith(RequestText(lastCall.calls[i]), system_preamble)
        /\ ReturnedFallback =>
               StartsWith(SubSeq(lastCall.value, Len(FallbackHeader) + 1,
                                 Len(lastCall.value)),
                          system_preamble)

C7_Witness ==
    /\ ReturnedFallback
    /\ Len(lastCall.calls) = 2
    /\ lastCall.calls[1].api = GeminiApi
    /\ lastCall.calls[2].api = CompletionApi

\* C8 (as claimed): every provider call carries the labeled fields
\* "Mode: <reasoning>" and "ExternalLinksAllowed: <flag>" in its prompt text.
C8_FieldsSent ==
    lastCall.called =>
        \A i \in DOMAIN lastCall.calls :
            /\ Contains(RequestText(lastCall.calls[i]),
                        ModeLabel \o reasoning(lastCall.mode_meta) \o <<10>>)
            /\ Contains(RequestText(lastCall.calls[i]),
                        LinksLabel
                        \o str_bool(external_flag(lastCall.mode_meta)) \o <<10>>)

\* the value generate_response returns for a provider call that returned
ProviderValue(c) ==
    IF c.api = GeminiApi
    THEN (IF Truthy(c.resp.text) THEN c.resp.text[1] ELSE c.resp.str)
    ELSE strip(c.resp.str)

IsOpenAI(c) == c.api \in {ChatApi, CompletionApi}

\* C10: Gemini, then OpenAI, then the local fallback, without retry: each
\* provider is called at most once, Gemini before OpenAI; a provider is called
\* only if every provider called before it raised; the fallback is returned
\* only if no provider returned; a provider that returns ends the call with
\* its result.
C10_FixedOrderNoRetry ==
    lastCall.called =>
        LET calls == lastCall.calls
        IN  /\ Len(calls) <= 2
            /\ \A i, j \in DOMAIN calls :
                   i < j => calls[i].api = GeminiApi /\ IsOpenAI(calls[j])
            /\ (\E i \in DOMAIN calls : IsOpenAI(calls[i])) =>
                   \/ get_gemini_client = None
                   \/ calls[1].api = GeminiApi /\ calls[1].resp.raises
            /\ \A i \in DOMAIN calls :
                   ~calls[i].resp.raises =>
                       /\ i = Len(calls)
                       /\ lastCall.outcome = "return"
                       /\ lastCall.value = ProviderValue(calls[i])
            /\ ReturnedFallback => \A i \in DOMAIN calls : calls[i].resp.raises

C10_Witness ==
    /\ lastCall.called
    /\ Len(lastCall.calls) = 2
    /\ lastCall.calls[1].resp.raises
    /\ ~lastCall.calls[2].resp.raises
    /\ lastCall.value = Str("OpenAI answer")

----------------------------------------------------------------------------
(* Properties of parse_uploaded_file (under FileSpec) *)

SupportedName(name) ==
    \E ext \in {".pdf", ".docx", ".txt", ".md"} : endswith(str_lower(name), ext)

\* a text is a string: a sequence of runs of characters
IsText(t) ==
    /\ DOMAIN t = 1..Len(t)
    /\ \A i \in DOMAIN t : t[i][1] \in 0..1114111 /\ t[i][2] >= 1

\* C2 (as claimed): for a name ending in .pdf, .docx, .txt or .md (any
\* letter case) and any content, parse_uploaded_file does not raise and
\* returns the name with a string; a PDF (DOCX) parsing failure gives a text
\* that begins with "[Error reading PDF:" ("[Error reading DOCX:").
C2_NeverRaises ==
    (parsed.called /\ SupportedName(upload.name)) =>
        /\ ~parsed.raised
        /\ parsed.name = upload.name
        /\ IsText(parsed.text)
        /\ (endswith(str_lower(upload.name), ".pdf") /\ upload.reader.raises) =>
               TStartsWith(parsed.text, Lit("[Error reading PDF:"))
        /\ (endswith(str_lower(upload.name), ".docx") /\ upload.document.raises) =>
               TStartsWith(parsed.text, Lit("[Error reading DOCX:"))

\* C3: when the extracted text is longer than MAX_FILE_TEXT, the returned
\* text is its first MAX_FILE_TEXT characters followed by the truncation
\* marker, so its length is MAX_FILE_TEXT plus the length of the marker.
C3_TruncatedExactly ==
    (parsed.called /\ ~parsed.raised /\ TLen(parsed.extracted) > MAX_FILE_TEXT) =>
        /\ TLen(parsed.text) = MAX_FILE_TEXT + TLen(TruncationMarker)
        /\ TTake(parsed.text, MAX_FILE_TEXT) = TTake(parsed.extracted, MAX_FILE_TEXT)
        /\ TDrop(parsed.text, MAX_FILE_TEXT) = TruncationMarker

C3_Witness ==
    /\ parsed.called
    /\ ~parsed.raised
    /\ parsed.via = <<"read_text_bytes", "markdown2.markdown">>
    /\ TLen(utf8_decode(upload.raw)) <= MAX_FILE_TEXT
    /\ TLen(parsed.extracted) > MAX_FILE_TEXT
    /\ TLen(parsed.text) = MAX_FILE_TEXT + 13

\* C4 (as claimed): every returned text has length at most MAX_FILE_TEXT.
C4_WithinCap ==
    (parsed.called /\ ~parsed.raised) => TLen(parsed.text) <= MAX_FILE_TEXT

\* C4 (amended): every returned text has length at most MAX_FILE_TEXT plus
\* the length of the truncation marker, and at most MAX_FILE_TEXT when the
\* extracted text was not longer than MAX_FILE_TEXT.
C4_WithinCapPlusMarker ==
    (parsed.called /\ ~parsed.raised) =>
        /\ TLen(parsed.text) <= MAX_FILE_TEXT + TLen(TruncationMarker)
        /\ TLen(parsed.extracted) <= MAX_FILE_TEXT =>
               TLen(parsed.text) <= MAX_FILE_TEXT

C4_Witness ==
    /\ parsed.called
    /\ upload.name = "data.txt"
    /\ TLen(parsed.extracted) = 2 * MAX_FILE_TEXT
    /\ TLen(parsed.text) = MAX_FILE_TEXT + TLen(TruncationMarker)

\* C9: the dispatch is on the lowercased suffix of the name: .pdf to
\* read_pdf_bytes, .docx to read_docx_bytes, .md to read_text_bytes and then
\* the Markdown conversion, any other name to read_text_bytes alone (UTF-8
\* with replacement); one branch per name; the name is returned as given.
C9_DispatchOnLowercasedSuffix ==
    parsed.called =>
        LET l == str_lower(upload.name)
            branch ==
                IF endswith(l, ".pdf")
                THEN [via |-> <<"read_pdf_bytes">>,
                      text |-> read_pdf_bytes(upload.raw, upload.reader).value]
                ELSE IF endswith(l, ".docx")
                THEN [via |-> <<"read_docx_bytes">>,
                      text |-> read_docx_bytes(upload.raw, upload.document).value]
                ELSE IF endswith(l, ".md")
                THEN [via |-> <<"read_text_bytes", "markdown2.markdown">>,
                      text |-> markdown(utf8_decode(upload.raw),
                                        upload.converter).value]
                ELSE [via |-> <<"read_text_bytes">>,
                      text |-> utf8_decode(upload.raw)]
        IN  /\ parsed.via = branch.via
            /\ ~parsed.raised =>
                   /\ parsed.name = upload.name
                   /\ parsed.extracted = branch.text

C9_Witness ==
    /\ parsed.called
    /\ upload.name = "Paper.PDF"
    /\ parsed.name = "Paper.PDF"
    /\ parsed.via = <<"read_pdf_bytes">>
    /\ ~upload.reader.raises
    /\ parsed.text = Lit("Page one\n\nPage two")

====
